---- MODULE Spec2Model ----
(***************************************************************************)
(* Model of the crypto momentum backtester: compute_indicators and         *)
(* generate_signals (strategy.py) feeding run_backtest (backtester.py).    *)
(*                                                                         *)
(* Numbers.  The program computes in IEEE doubles; the model computes in   *)
(* exact rationals <<n, d>> (d > 0, lowest terms).  NaN, pandas' marker    *)
(* for a missing cell, is <<0, 0>>.  Python's round(x, k) is modelled by   *)
(* what it does (nearest multiple of 10^-k, ties to even), never as the    *)
(* identity.                                                               *)
(***************************************************************************)
EXTENDS Integers, Sequences, FiniteSets, TLC

(***************************************************************************)
(* Rational arithmetic                                                     *)
(***************************************************************************)
Abs(n) == IF n < 0 THEN -n ELSE n

RECURSIVE Gcd(_, _)
Gcd(a, b) == IF b = 0 THEN a ELSE Gcd(b, a % b)

Norm(n, d) ==
    LET g == Gcd(Abs(n), Abs(d))
        s == IF d < 0 THEN -1 ELSE 1
    IN  IF n = 0 THEN <<0, 1>> ELSE <<s * (n \div g), s * (d \div g)>>

NaN == <<0, 0>>
IsNaN(x) == x[2] = 0

R(n) == <<n, 1>>
Q(n, d) == Norm(n, d)
Zero == <<0, 1>>
One == <<1, 1>>

\* a/b + c/d over the least common denominator (keeps the integers small)
RAdd(x, y) ==
    IF IsNaN(x) \/ IsNaN(y) THEN NaN
    ELSE LET g == Gcd(x[2], y[2])
         IN  Norm(x[1] * (y[2] \div g) + y[1] * (x[2] \div g), (x[2] \div g) * y[2])

RNeg(x) == IF IsNaN(x) THEN NaN ELSE <<-x[1], x[2]>>
RSub(x, y) == RAdd(x, RNeg(y))

RMul(x, y) ==
    IF IsNaN(x) \/ IsNaN(y) THEN NaN
    ELSE LET g1 == Gcd(Abs(x[1]), y[2])
             g2 == Gcd(Abs(y[1]), x[2])
             a == IF g1 = 0 THEN 1 ELSE g1
             b == IF g2 = 0 THEN 1 ELSE g2
         IN  Norm((x[1] \div a) * (y[1] \div b), (x[2] \div b) * (y[2] \div a))

\* x / y for y # 0 (every division of the modelled code has a positive divisor)
RDiv(x, y) ==
    IF IsNaN(x) \/ IsNaN(y) THEN NaN
    ELSE RMul(x, IF y[1] < 0 THEN <<-y[2], -y[1]>> ELSE <<y[2], y[1]>>)

\* comparisons follow IEEE: any comparison with NaN is false
RLt(x, y) == ~IsNaN(x) /\ ~IsNaN(y) /\ x[1] * y[2] < y[1] * x[2]
RLe(x, y) == ~IsNaN(x) /\ ~IsNaN(y) /\ x[1] * y[2] <= y[1] * x[2]
RGt(x, y) == RLt(y, x)
RGe(x, y) == RLe(y, x)
REq(x, y) == ~IsNaN(x) /\ ~IsNaN(y) /\ x = y

\* 10^k
RECURSIVE Pow10(_)
Pow10(k) == IF k = 0 THEN 1 ELSE 10 * Pow10(k - 1)

\* The first k decimal digits of r/d (0 <= r < d) by long division:
\* <<digits as an integer, remainder>>.
RECURSIVE LongDiv(_, _, _)
LongDiv(r, d, k) ==
    IF k = 0 THEN <<0, r>>
    ELSE LET q == (r * 10) \div d
             rest == LongDiv((r * 10) % d, d, k - 1)
         IN  <<q * Pow10(k - 1) + rest[1], rest[2]>>

\* Python round(x, k): nearest multiple of 10^-k, a tie goes to the even one.
RoundMag(n, d, k) ==
    LET ip == n \div d
        ld == LongDiv(n % d, d, k)
        m == ip * Pow10(k) + ld[1]
        up == \/ 2 * ld[2] > d
              \/ (2 * ld[2] = d /\ m % 2 = 1)
    IN  IF up THEN m + 1 ELSE m

Round(x, k) ==
    IF IsNaN(x) THEN NaN
    ELSE IF x[1] < 0 THEN Norm(-RoundMag(-x[1], x[2], k), Pow10(k))
    ELSE Norm(RoundMag(x[1], x[2], k), Pow10(k))

(***************************************************************************)
(* Bounds of the model                                                     *)
(***************************************************************************)
\* longest enumerated price series fed to compute_indicators
MaxLen == 5
\* longest enumerated frame fed directly to run_backtest
MaxDays == 3
\* largest `retries` argument of fetch_crypto_data
MaxRetries == 3
\* longest equity series handed to calculate_metrics
MaxPoints == 5

(***************************************************************************)
(* Program constants                                                       *)
(***************************************************************************)
\* strategy.py: df["volume"].rolling(window=20)
VolWindow == 20
\* strategy.py: df["vol_ratio"] > 0.8
VolRatioMin == Q(8, 10)
\* config.py: MOMENTUM_PERIOD (main.py), the literal 14 of app.py
MOMENTUM_PERIOD == 14
\* stop_loss=None
NoStopLoss == NaN
\* data_loader.py: if len(df) < 60
MinPoints == 60
\* utils.py: the 365 of risk_free_rate / 365 and np.sqrt(365)
DaysPerYear == 365
\* utils.py: risk_free_rate=0.04
DefaultRiskFreeRate == Q(4, 100)
\* utils.py: downside_std = ... else 1e-9
DownsideEpsilon == Q(1, 1000000000)

(***************************************************************************)
(* State                                                                   *)
(***************************************************************************)
VARIABLES
    pc,                \* where the run is: "request", "start", "indicators",
                       \* "signals", "loop", "done", "error" in the pipeline;
                       \* "fetch", "parse", "returned" in fetch_crypto_data;
                       \* "metrics", "reported" in calculate_metrics; or the
                       \* name of the exception that ended the call
    cfg,               \* the parameters of the run (arguments of the calls)
    df,                \* the DataFrame handed from stage to stage:
                       \* [columns: set of names, rows: sequence of records]
    capital,           \* run_backtest: cash
    holdings,          \* run_backtest: units held
    entry_price,       \* run_backtest: entry price of the open position
    trade_log,         \* run_backtest: the ledger
    portfolio_values,  \* run_backtest: one equity point per processed row
    loaded,            \* history: the frame as it was loaded (df is reassigned
                       \* by every stage)
    attempt,           \* fetch_crypto_data: the loop variable
    responses,         \* history: the outcome of every request made so far
    data,              \* fetch_crypto_data: <<the parsed response>>, <<>> while
                       \* the name is unbound
    metrics            \* calculate_metrics: <<the values of the report>>, <<>>
                       \* until it returns

\* the locals of fetch_crypto_data
fetchVars == <<attempt, responses, data>>

\* the locals of run_backtest
simVars == <<capital, holdings, entry_price, trade_log, portfolio_values>>

vars == <<pc, cfg, df, capital, holdings, entry_price, trade_log, portfolio_values,
          loaded, attempt, responses, data, metrics>>

(***************************************************************************)
(* compute_indicators (strategy.py)                                        *)
(***************************************************************************)
RECURSIVE SumCol(_, _, _, _)
SumCol(rows, col, lo, hi) ==
    IF lo > hi THEN Zero
    ELSE IF lo = hi THEN rows[lo][col]
    ELSE LET mid == (lo + hi) \div 2
         IN  RAdd(SumCol(rows, col, lo, mid), SumCol(rows, col, mid + 1, hi))

\* Series.rolling(window=w, min_periods=w).mean() at row i (1-based)
RollingMean(rows, col, w, i) ==
    IF i < w THEN NaN ELSE RDiv(SumCol(rows, col, i - w + 1, i), R(w))

\* Series.pct_change(periods=k) * 100 at row i
Momentum(rows, k, i) ==
    IF i <= k THEN NaN
    ELSE RMul(RSub(RDiv(rows[i].close, rows[i - k].close), One), R(100))

\* df["volume"] / df["volume"].rolling(window=20).mean() at row i
VolRatio(rows, i) ==
    LET ma == RollingMean(rows, "volume", VolWindow, i)
    IN  IF IsNaN(ma) THEN NaN ELSE RDiv(rows[i].volume, ma)

\* One row of the frame returned by compute_indicators.  The Bollinger band
\* and daily_return columns are written by the code and read by no later
\* stage; the model does not carry them.
IndicatorRow(frame, short_window, long_window, momentum_period, i) ==
    [date |-> frame.rows[i].date,
     close |-> frame.rows[i].close,
     volume |-> frame.rows[i].volume,
     sma_short |-> RollingMean(frame.rows, "close", short_window, i),
     sma_long |-> RollingMean(frame.rows, "close", long_window, i),
     momentum |-> Momentum(frame.rows, momentum_period, i),
     vol_ratio |-> IF "volume" \in frame.columns THEN VolRatio(frame.rows, i) ELSE NaN,
     signal |-> NaN, position |-> NaN, trade |-> NaN]

\* the frame compute_indicators returns when it does not raise
compute_indicators(frame, short_window, long_window, momentum_period) ==
    [columns |-> frame.columns \cup {"sma_short", "sma_long", "momentum"}
                    \cup (IF "volume" \in frame.columns THEN {"vol_ma", "vol_ratio"} ELSE {}),
     rows |-> [i \in 1..Len(frame.rows) |->
                  IndicatorRow(frame, short_window, long_window, momentum_period, i)]]

\* the two raise ValueError(...) of compute_indicators
IndicatorsRaise(frame, long_window) ==
    \/ "close" \notin frame.columns
    \/ Len(frame.rows) < long_window

(***************************************************************************)
(* generate_signals (strategy.py)                                          *)
(***************************************************************************)
\* mutant: the crossover test reversed (short below long)
MaConditionReversed(row) == RLt(row.sma_short, row.sma_long)

\* df["sma_short"] > df["sma_long"]
MaCondition(row) == RGt(row.sma_short, row.sma_long)

\* df["momentum"] > momentum_threshold
MomCondition(row, momentum_threshold) == RGt(row.momentum, momentum_threshold)

\* df["vol_ratio"] > 0.8
VolCondition(row) == RGt(row.vol_ratio, VolRatioMin)

\* np.where(ma_condition & mom_condition [& vol_condition], 1, 0)
Signal(frame, momentum_threshold, i) ==
    LET row == frame.rows[i]
        cond == /\ MaCondition(row)
                /\ MomCondition(row, momentum_threshold)
                /\ ("vol_ratio" \in frame.columns => VolCondition(row))
    IN  IF cond THEN One ELSE Zero

\* mutant: the shift left out, position = today's signal
PositionNoShift(frame, momentum_threshold, i) == Signal(frame, momentum_threshold, i)

\* df["signal"].shift(1)
Position(frame, momentum_threshold, i) ==
    IF i = 1 THEN NaN ELSE Signal(frame, momentum_threshold, i - 1)

\* df["position"].diff()
Trade(frame, momentum_threshold, i) ==
    IF i = 1 THEN NaN
    ELSE RSub(Position(frame, momentum_threshold, i), Position(frame, momentum_threshold, i - 1))

SignalRow(frame, momentum_threshold, i) ==
    [frame.rows[i] EXCEPT !.signal = Signal(frame, momentum_threshold, i),
                          !.position = Position(frame, momentum_threshold, i),
                          !.trade = Trade(frame, momentum_threshold, i)]

\* df.dropna(subset=["position", "trade"]): keep the rows with both present
DropNa(rows) == SelectSeq(rows, LAMBDA r : ~IsNaN(r.position) /\ ~IsNaN(r.trade))

\* the frame generate_signals returns when it does not raise
generate_signals(frame, momentum_threshold) ==
    [columns |-> frame.columns \cup {"signal", "position", "trade"},
     rows |-> DropNa([i \in 1..Len(frame.rows) |-> SignalRow(frame, momentum_threshold, i)])]

\* raise ValueError("Missing indicator columns ...")
SignalsRaise(frame) == ~({"sma_short", "sma_long", "momentum"} \subseteq frame.columns)

(***************************************************************************)
(* run_backtest (backtester.py)                                            *)
(***************************************************************************)
\* mutant: the capital test made strict, a zero capital accepted
BacktestRaisesNegativeOnly(frame, initial_capital) ==
    \/ ~({"close", "position", "trade"} \subseteq frame.columns)
    \/ RLt(initial_capital, Zero)

\* missing = [c for c in required if c not in df.columns]; initial_capital <= 0
BacktestRaises(frame, initial_capital) ==
    \/ ~({"close", "position", "trade"} \subseteq frame.columns)
    \/ RLe(initial_capital, Zero)

\* current_return = (price - entry_price) / entry_price
CurrentReturn(price, entry) == RDiv(RSub(price, entry), entry)

\* current_return <= stop_loss
StopLossHit(current_return, stop_loss) == RLe(current_return, stop_loss)

\* the guard of the forced exit
StopLossFires(st, price, stop_loss) ==
    /\ ~IsNaN(stop_loss)
    /\ RGt(st.holdings, Zero)
    /\ RGt(st.entry_price, Zero)
    /\ StopLossHit(CurrentReturn(price, st.entry_price), stop_loss)

\* mutant: the operands of the subtraction swapped
ExitProceedsSwapped(revenue, fee) == RSub(fee, revenue)

\* mutant: the exit fee not taken off the proceeds
ExitProceedsNoFee(revenue, fee) == revenue

\* capital = revenue - cost
ExitProceeds(revenue, fee) == RSub(revenue, fee)

\* mutant: the fee left out of the realized P&L
RealizedPnlNoFee(revenue, fee, units, entry) == RSub(revenue, RMul(units, entry))

\* pnl = revenue - fee - (holdings * entry_price)
RealizedPnl(revenue, fee, units, entry) == RSub(RSub(revenue, fee), RMul(units, entry))

\* the dict appended to trade_log
TradeEvent(date, action, price, units, fee, pnl) ==
    [date |-> date, action |-> action, price |-> Round(price, 2),
     units |-> Round(units, 6), fee |-> Round(fee, 2), pnl |-> Round(pnl, 2)]

\* "check stop loss if we have a position"
StopLossStep(st, row, transaction_cost, stop_loss) ==
    IF StopLossFires(st, row.close, stop_loss)
    THEN LET revenue == RMul(st.holdings, row.close)
             cost == RMul(revenue, transaction_cost)
         IN  [capital |-> ExitProceeds(revenue, cost),
              holdings |-> Zero,
              entry_price |-> Zero,
              log |-> Append(st.log,
                        TradeEvent(row.date, "STOP_LOSS", row.close, st.holdings, cost,
                                   RealizedPnl(revenue, cost, st.holdings, st.entry_price)))]
    ELSE st

\* mutant: the buy branch without its trade == 1 test
BuyFiresAnyTrade(st, row) == REq(st.holdings, Zero) /\ RGt(st.capital, Zero)

\* trade == 1 and holdings == 0 and capital > 0
BuyFires(st, row) ==
    REq(row.trade, One) /\ REq(st.holdings, Zero) /\ RGt(st.capital, Zero)

\* mutant: the sell branch without its holdings > 0 test
SellFiresFlat(st, row) == REq(row.trade, R(-1))

\* trade == -1 and holdings > 0
SellFires(st, row) == REq(row.trade, R(-1)) /\ RGt(st.holdings, Zero)

\* mutant: the fee not taken off the cash spent
UnitsBoughtNoFee(cash, fee, price) == RDiv(cash, price)

\* units = (capital - fee) / price
UnitsBought(cash, fee, price) == RDiv(RSub(cash, fee), price)

\* "execute buy" / "execute sell": the if / elif after the stop-loss check
TradeStep(st, row, transaction_cost) ==
    IF BuyFires(st, row)
    THEN LET fee == RMul(st.capital, transaction_cost)
             units == UnitsBought(st.capital, fee, row.close)
         IN  [capital |-> Zero,
              holdings |-> units,
              entry_price |-> row.close,
              log |-> Append(st.log, TradeEvent(row.date, "BUY", row.close, units, fee, Zero))]
    ELSE IF SellFires(st, row)
    THEN LET revenue == RMul(st.holdings, row.close)
             fee == RMul(revenue, transaction_cost)
         IN  [capital |-> ExitProceeds(revenue, fee),
              holdings |-> Zero,
              entry_price |-> Zero,
              log |-> Append(st.log,
                        TradeEvent(row.date, "SELL", row.close, st.holdings, fee,
                                   RealizedPnl(revenue, fee, st.holdings, st.entry_price)))]
    ELSE st

\* "track portfolio": the dict appended to portfolio_values
EquityPoint(st, row) ==
    [date |-> row.date,
     portfolio_value |-> Round(RAdd(st.capital, RMul(st.holdings, row.close)), 2),
     cash |-> Round(st.capital, 2),
     holdings |-> Round(st.holdings, 6),
     price |-> Round(row.close, 2),
     in_position |-> IF RGt(st.holdings, Zero) THEN 1 ELSE 0]

\* one iteration of "for date, row in df.iterrows()"
ProcessRow(st, row, transaction_cost, stop_loss) ==
    TradeStep(StopLossStep(st, row, transaction_cost, stop_loss), row, transaction_cost)

(***************************************************************************)
(* Inputs: the runs the model explores                                     *)
(***************************************************************************)
\* close prices of the enumerated frames
Prices == {R(2), R(3), R(4)}

\* the values of the trade column
Trades == {One, R(-1), Zero}

\* a row of an input frame: only the loaded columns are present
InputRow(date, close, volume) ==
    [date |-> date, close |-> close, volume |-> volume,
     sma_short |-> NaN, sma_long |-> NaN, momentum |-> NaN, vol_ratio |-> NaN,
     signal |-> NaN, position |-> NaN, trade |-> NaN]

\* a row of a frame handed directly to run_backtest
SignalInputRow(date, close, trade) ==
    [InputRow(date, close, NaN) EXCEPT !.trade = trade]

\* a loaded frame with a close column only
CloseFrame(series) ==
    [columns |-> {"close"},
     rows |-> [i \in 1..Len(series) |-> InputRow(i, series[i], NaN)]]

\* a loaded frame with close and volume columns
VolumeFrame(series, volumes) ==
    [columns |-> {"close", "volume"},
     rows |-> [i \in 1..Len(series) |-> InputRow(i, series[i], volumes[i])]]

\* every price series of length 0..MaxLen over Prices
EnumSeries == UNION {[1..n -> Prices] : n \in 0..MaxLen}

\* prices rising linearly from 100 to 200 over n days (numpy.linspace(100, 200, n))
Rising(n) == [i \in 1..n |-> Q(100 * (n - 1) + 100 * (i - 1), n - 1)]

\* prices flat at 100 for n days
Flat(n) == [i \in 1..n |-> R(100)]

\* a volume series: 5 every day but one thin day
ThinDay(n) == [i \in 1..n |-> IF i = 60 THEN R(1) ELSE R(5)]

\* a rally, a 30% drop on day 7 while both averages still point up, a
\* recovery: the position column stays 1 across the drop
Dip == <<R(1), R(1), R(1), R(1), R(10), R(10), R(7), R(8), R(8)>>

\* the frames a run may start from
InputFrames(c) ==
    CASE c.input = "enum" /\ ~c.volume -> {CloseFrame(x) : x \in EnumSeries}
      [] c.input = "enum" /\ c.volume ->
            {VolumeFrame(x, [i \in 1..Len(x) |-> R(5)]) : x \in EnumSeries}
      [] c.input = "rising" /\ ~c.volume -> {CloseFrame(Rising(c.days))}
      [] c.input = "rising" /\ c.volume -> {VolumeFrame(Rising(c.days), ThinDay(c.days))}
      [] c.input = "flat" /\ ~c.volume -> {CloseFrame(Flat(c.days))}
      [] c.input = "flat" /\ c.volume -> {VolumeFrame(Flat(c.days), ThinDay(c.days))}
      [] c.input = "dip" -> {CloseFrame(Dip)}
      [] c.input = "direct" -> {[columns |-> {"close", "position", "trade"}, rows |-> <<>>]}
      [] c.input = "partial" ->
            {[columns |-> cols, rows |-> <<>>] :
                cols \in (SUBSET {"close", "position", "trade"}) \
                             {{"close", "position", "trade"}}}

\* the arguments of a run.  entry: "cli" is main.py's run_single, "web" is
\* app.py's run_strategy, "call" is a direct call of run_backtest
Config(input, volume, days, prices, windows, thr, money) ==
    [entry |-> IF input \in {"direct", "partial"} THEN "call" ELSE "cli",
     input |-> input, volume |-> volume, days |-> days, prices |-> prices,
     short_window |-> windows[1], long_window |-> windows[2],
     momentum_period |-> windows[3], momentum_threshold |-> thr,
     initial_capital |-> money[1], transaction_cost |-> money[2], stop_loss |-> money[3]]

\* capital, transaction cost, stop-loss
MoneyA == <<R(100), Zero, NoStopLoss>>
MoneyB == <<Q(1001, 8), Q(1, 2), Q(-1, 4)>>

\* enumerated short series through the whole pipeline
EnumConfigs ==
    {Config("enum", FALSE, 0, {}, <<1, 2, 1>>, R(0), MoneyA),
     Config("enum", FALSE, 0, {}, <<1, 2, 1>>, R(40), MoneyB),
     Config("enum", FALSE, 0, {}, <<2, 3, 1>>, R(0), MoneyB),
     Config("enum", FALSE, 0, {}, <<2, 3, 1>>, R(40), MoneyA),
     Config("enum", FALSE, 0, {}, <<2, 4, 2>>, R(0), MoneyA),
     Config("enum", FALSE, 0, {}, <<2, 2, 3>>, R(0), MoneyB),
     Config("enum", FALSE, 0, {}, <<3, 2, 1>>, R(0), MoneyA),
     Config("enum", TRUE, 0, {}, <<1, 2, 1>>, R(0), MoneyA)}

\* the scenarios of the specification: 100 days, rising or flat
ScenarioConfigs ==
    {Config(in, FALSE, 100, {}, <<w[1], w[2], MOMENTUM_PERIOD>>, R(0), <<R(10000), tc, sl>>) :
        in \in {"rising", "flat"},
        w \in {<<5, 10>>, <<20, 50>>},
        tc \in {Zero, Q(1, 1000)},
        sl \in {NoStopLoss, Q(-5, 100)}}
    \cup
    {Config(in, TRUE, 100, {}, <<5, 10, MOMENTUM_PERIOD>>, R(0), <<R(10000), Zero, sl>>) :
        in \in {"rising", "flat"},
        sl \in {NoStopLoss, Q(-5, 100)}}
    \cup
    {Config("dip", FALSE, Len(Dip), {}, <<2, 4, 3>>, R(0), <<R(100), tc, Q(-1, 4)>>) :
        tc \in {Zero, Q(1, 2)}}

\* frames handed directly to run_backtest, row by row
DirectConfigs ==
    {Config("direct", FALSE, MaxDays, Prices, <<0, 0, 0>>, Zero, <<R(100), tc, sl>>) :
        tc \in {Zero, Q(1, 2), One},
        sl \in {NoStopLoss, Q(-1, 4), Q(-1, 2)}}
    \cup
    {Config("direct", FALSE, MaxDays, Prices, <<0, 0, 0>>, Zero, MoneyB),
     Config("direct", FALSE, 2, {R(94), R(95), R(100)}, <<0, 0, 0>>, Zero,
            <<R(10000), Zero, Q(-5, 100)>>),
     Config("direct", FALSE, 1, {R(100)}, <<0, 0, 0>>, Zero,
            <<R(10000), Q(1, 1000), Q(-5, 100)>>)}

\* requests to the web handler: momentum period 14, threshold 0, cost 0.001
\* are literals of run_strategy; short_ma and long_ma come with the request
WebConfigs ==
    {[Config("enum", FALSE, 0, {}, <<w[1], w[2], MOMENTUM_PERIOD>>, R(0),
             <<R(100), Q(1, 1000), Q(-5, 100)>>) EXCEPT !.entry = "web"] :
        w \in {<<1, 2>>, <<2, 2>>, <<3, 2>>}}

\* calls of run_backtest with arguments it has to refuse: a capital that is
\* not positive, a frame without one of the required columns
InvalidConfigs ==
    {Config(in, FALSE, MaxDays, Prices, <<0, 0, 0>>, Zero, <<c, tc, sl>>) :
        in \in {"direct", "partial"},
        c \in {Zero, R(-100)},
        tc \in {Zero, Q(1, 2)},
        sl \in {NoStopLoss, Q(-1, 4)}}
    \cup
    {Config("partial", FALSE, MaxDays, Prices, <<0, 0, 0>>, Zero, <<R(100), tc, sl>>) :
        tc \in {Zero, Q(1, 2)},
        sl \in {NoStopLoss, Q(-1, 4)}}

Configs ==
    EnumConfigs \cup ScenarioConfigs \cup DirectConfigs \cup WebConfigs \cup InvalidConfigs

(***************************************************************************)
(* The state machine                                                       *)
(***************************************************************************)
Init ==
    /\ cfg \in Configs
    /\ df \in InputFrames(cfg)
    /\ loaded = df
    /\ pc = CASE cfg.entry = "call" -> "signals"
              [] cfg.entry = "web" -> "request"
              [] cfg.entry = "cli" -> "start"
    /\ capital = Zero
    /\ holdings = Zero
    /\ entry_price = Zero
    /\ trade_log = <<>>
    /\ portfolio_values = <<>>
    /\ attempt = 0
    /\ responses = <<>>
    /\ data = <<>>
    /\ metrics = <<>>

\* app.py: if short_ma >= long_ma: return jsonify({"error": ...}), 400
RunStrategyRejects(short_ma, long_ma) == short_ma >= long_ma

\* run_strategy up to its call of compute_indicators
RunStrategy ==
    /\ pc = "request"
    /\ pc' = IF RunStrategyRejects(cfg.short_window, cfg.long_window)
             THEN "error" ELSE "start"
    /\ UNCHANGED <<cfg, df, loaded, simVars, fetchVars, metrics>>

\* df = compute_indicators(df, short_ma, long_ma, MOMENTUM_PERIOD)
ComputeIndicators ==
    /\ pc = "start"
    /\ IF IndicatorsRaise(df, cfg.long_window)
       THEN pc' = "error" /\ UNCHANGED df
       ELSE /\ pc' = "indicators"
            /\ df' = compute_indicators(df, cfg.short_window, cfg.long_window,
                                        cfg.momentum_period)
    /\ UNCHANGED <<cfg, loaded, simVars, fetchVars, metrics>>

\* df = generate_signals(df, MOMENTUM_THRESHOLD)
GenerateSignals ==
    /\ pc = "indicators"
    /\ IF SignalsRaise(df)
       THEN pc' = "error" /\ UNCHANGED df
       ELSE /\ pc' = "signals"
            /\ df' = generate_signals(df, cfg.momentum_threshold)
    /\ UNCHANGED <<cfg, loaded, simVars, fetchVars, metrics>>

\* run_backtest up to the loop: the checks and the initial state
StartBacktest ==
    /\ pc = "signals"
    /\ IF BacktestRaises(df, cfg.initial_capital)
       THEN pc' = "error" /\ UNCHANGED <<capital, holdings, entry_price>>
       ELSE /\ pc' = "loop"
            /\ capital' = cfg.initial_capital
            /\ holdings' = Zero
            /\ entry_price' = Zero
    /\ trade_log' = <<>>
    /\ portfolio_values' = <<>>
    /\ UNCHANGED <<cfg, df, loaded, fetchVars, metrics>>

\* the state threaded through the loop
SimState == [capital |-> capital, holdings |-> holdings,
             entry_price |-> entry_price, log |-> trade_log]

\* the loop body on `row`
Process(row) ==
    LET st == ProcessRow(SimState, row, cfg.transaction_cost, cfg.stop_loss)
    IN  /\ capital' = st.capital
        /\ holdings' = st.holdings
        /\ entry_price' = st.entry_price
        /\ trade_log' = st.log
        /\ portfolio_values' = Append(portfolio_values, EquityPoint(st, row))

\* one iteration of the loop.  A frame that comes from generate_signals is
\* read row by row; a frame handed directly to run_backtest is drawn row by
\* row as it is read.
BacktestDay ==
    /\ pc = "loop"
    /\ IF cfg.input = "direct"
       THEN /\ Len(portfolio_values) < cfg.days
            /\ \E price \in cfg.prices, trade \in Trades :
                 LET row == SignalInputRow(Len(portfolio_values) + 1, price, trade)
                 IN  /\ df' = [df EXCEPT !.rows = Append(df.rows, row)]
                     /\ Process(row)
       ELSE /\ Len(portfolio_values) < Len(df.rows)
            /\ Process(df.rows[Len(portfolio_values) + 1])
            /\ UNCHANGED df
    /\ UNCHANGED <<pc, cfg, loaded, fetchVars, metrics>>

\* after the loop: pd.DataFrame(portfolio_values).set_index("date") raises
\* KeyError when no row was processed
FinishBacktest ==
    /\ pc = "loop"
    /\ cfg.input # "direct" => Len(portfolio_values) = Len(df.rows)
    /\ pc' = IF portfolio_values = <<>> THEN "error" ELSE "done"
    /\ UNCHANGED <<cfg, df, loaded, simVars, fetchVars, metrics>>

Next ==
    \/ RunStrategy
    \/ ComputeIndicators
    \/ GenerateSignals
    \/ StartBacktest
    \/ BacktestDay
    \/ FinishBacktest

Spec == Init /\ [][Next]_vars

(***************************************************************************)
(* fetch_crypto_data (data_loader.py)                                      *)
(***************************************************************************)
\* what one requests.get can come to: a response with status 200, 429 or
\* another status ("500" stands for all of them), or one of the two
\* exceptions the function catches
Outcomes == {"200", "429", "500", "timeout", "connection"}

\* what the parsing after the loop reads of a response body: whether it has
\* a "prices" key and how many price points (with a close) it holds
Payloads ==
    {[prices |-> FALSE, points |-> 0],
     [prices |-> TRUE, points |-> 0],
     [prices |-> TRUE, points |-> MinPoints - 1],
     [prices |-> TRUE, points |-> MinPoints]}

\* the frame variables of a call that has loaded nothing yet
NoFrame == [columns |-> {}, rows |-> <<>>]

FetchInit ==
    /\ pc = "fetch"
    /\ cfg \in {[retries |-> r] : r \in 1..MaxRetries}
    /\ attempt = 0
    /\ responses = <<>>
    /\ data = <<>>
    /\ df = NoFrame
    /\ loaded = NoFrame
    /\ capital = Zero
    /\ holdings = Zero
    /\ entry_price = Zero
    /\ trade_log = <<>>
    /\ portfolio_values = <<>>
    /\ metrics = <<>>

\* except requests.exceptions.Timeout / ConnectionError: raise on the last
\* attempt, else sleep and go round again
AfterException == IF attempt' = cfg.retries THEN "DataLoadError" ELSE "fetch"

\* one iteration of "for attempt in range(1, retries + 1)"
Request ==
    /\ pc = "fetch"
    /\ attempt < cfg.retries
    /\ attempt' = attempt + 1
    /\ \E outcome \in Outcomes :
         /\ responses' = Append(responses, outcome)
         /\ CASE outcome = "429" -> pc' = "fetch" /\ UNCHANGED data
              [] outcome = "500" -> pc' = "DataLoadError" /\ UNCHANGED data
              [] outcome = "200" ->
                    /\ pc' = "parse"
                    /\ \E body \in Payloads : data' = <<body>>
              [] outcome \in {"timeout", "connection"} ->
                    pc' = AfterException /\ UNCHANGED data
    /\ UNCHANGED <<cfg, df, loaded, simVars, metrics>>

\* the for statement finds its range exhausted: control falls to the
\* statement after the loop
LoopExhausted ==
    /\ pc = "fetch"
    /\ attempt = cfg.retries
    /\ pc' = "parse"
    /\ UNCHANGED <<cfg, df, loaded, simVars, fetchVars, metrics>>

\* "parse prices" to the return: the first read of `data` raises
\* UnboundLocalError when no attempt assigned it
Parse ==
    /\ pc = "parse"
    /\ pc' = IF data = <<>> THEN "UnboundLocalError"
             ELSE IF ~data[1].prices \/ data[1].points = 0 THEN "DataLoadError"
             ELSE IF data[1].points < MinPoints THEN "DataLoadError"
             ELSE "returned"
    /\ UNCHANGED <<cfg, df, loaded, simVars, fetchVars, metrics>>

FetchNext ==
    \/ Request
    \/ LoopExhausted
    \/ Parse

FetchSpec == FetchInit /\ [][FetchNext]_vars

(***************************************************************************)
(* calculate_metrics (utils.py)                                            *)
(***************************************************************************)
\* A float that may be irrational: coef * sqrt(radicand).
Surd(c, r) == [coef |-> c, radicand |-> r]

\* a float computed without a square root
Exact(x) == Surd(x, One)

\* np.sqrt(x), and the square root inside Series.std()
Sqrt(x) == Surd(One, x)

\* s > 0 (false when s is NaN)
SurdPositive(s) == RGt(s.coef, Zero) /\ RGt(s.radicand, Zero)

\* the float num / den, kept as the two operands of the division
Quotient(num, den) == [num |-> num, den |-> den]

\* the float literal 0.0
ZeroValue == Quotient(Exact(Zero), Exact(One))

RECURSIVE SeqSum(_)
SeqSum(xs) == IF xs = <<>> THEN Zero ELSE RAdd(xs[1], SeqSum(Tail(xs)))

\* Series.mean(): NaN on an empty series
Mean(xs) == IF xs = <<>> THEN NaN ELSE RDiv(SeqSum(xs), R(Len(xs)))

\* the square of Series.std() (ddof = 1): NaN on fewer than two values
Variance(xs) ==
    IF Len(xs) < 2 THEN NaN
    ELSE LET m == Mean(xs)
             sq == [i \in 1..Len(xs) |-> RMul(RSub(xs[i], m), RSub(xs[i], m))]
         IN  RDiv(SeqSum(sq), R(Len(xs) - 1))

\* results["portfolio_value"]
PortfolioColumn(points) == [i \in 1..Len(points) |-> points[i].portfolio_value]

\* results["daily_return"].dropna(): run_backtest fills the column with
\* portfolio_value.pct_change(), whose first cell is NaN
DailyReturns(portfolio) ==
    [i \in 1..(Len(portfolio) - 1) |->
        RDiv(RSub(portfolio[i + 1], portfolio[i]), portfolio[i])]

\* excess = returns - risk_free_rate / 365
Excess(returns, risk_free_rate) ==
    [i \in 1..Len(returns) |->
        RSub(returns[i], RDiv(risk_free_rate, R(DaysPerYear)))]

\* downside = excess[excess < 0]
Downside(excess) == SelectSeq(excess, LAMBDA x : RLt(x, Zero))

\* downside_std = downside.std() if len(downside) > 0 else 1e-9
DownsideStd(downside) ==
    IF Len(downside) > 0 THEN Sqrt(Variance(downside)) ELSE Exact(DownsideEpsilon)

\* sortino = (np.sqrt(365) * excess.mean() / downside_std) if downside_std > 0 else 0.0
Sortino(excess) ==
    LET downside_std == DownsideStd(Downside(excess))
    IN  IF SurdPositive(downside_std)
        THEN Quotient(Surd(Mean(excess), R(DaysPerYear)), downside_std)
        ELSE ZeroValue

\* rolling_max = portfolio.cummax() at point i
RECURSIVE RollingMax(_, _)
RollingMax(portfolio, i) ==
    IF i = 1 THEN portfolio[1]
    ELSE LET m == RollingMax(portfolio, i - 1)
         IN  IF RGt(portfolio[i], m) THEN portfolio[i] ELSE m

\* drawdown = (portfolio - rolling_max) / rolling_max at point i
Drawdown(portfolio, i) ==
    RDiv(RSub(portfolio[i], RollingMax(portfolio, i)), RollingMax(portfolio, i))

\* mutant: a point at its running peak counted as in drawdown
InDrawdownInclusive(portfolio, i) == RLe(Drawdown(portfolio, i), Zero)

\* in_dd = drawdown < 0 at point i
InDrawdown(portfolio, i) == RLt(Drawdown(portfolio, i), Zero)

\* dd_groups = (~in_dd).cumsum() at point i
DdGroup(portfolio, i) == Cardinality({j \in 1..i : ~InDrawdown(portfolio, j)})

\* in_dd.groupby(dd_groups).sum() for the group g
DdLength(portfolio, g) ==
    Cardinality({i \in 1..Len(portfolio) :
                    DdGroup(portfolio, i) = g /\ InDrawdown(portfolio, i)})

\* "find max drawdown duration"
MaxDdDuration(portfolio) ==
    IF \E i \in 1..Len(portfolio) : InDrawdown(portfolio, i)
    THEN LET groups == {DdGroup(portfolio, i) : i \in 1..Len(portfolio)}
         IN  CHOOSE n \in {DdLength(portfolio, g) : g \in groups} :
                 \A g \in groups : DdLength(portfolio, g) <= n
    ELSE 0

\* the values behind the "Sortino Ratio" and "Max DD Duration" entries of
\* the dict calculate_metrics returns (the dict renders them with "{:.3f}"
\* and "{} days"); its other entries are not carried
Report(points, risk_free_rate) ==
    LET portfolio == PortfolioColumn(points)
        excess == Excess(DailyReturns(portfolio), risk_free_rate)
    IN  [sortino |-> Sortino(excess),
         max_dd_duration |-> MaxDdDuration(portfolio)]

\* portfolio values of the enumerated equity series
EquityValues == {R(1), R(2), R(3)}

\* an equity point as calculate_metrics reads it
ResultPoint(date, value) == [date |-> date, portfolio_value |-> value]

\* every equity series of 0..MaxPoints points over EquityValues
EnumResults ==
    {[i \in 1..Len(x) |-> ResultPoint(i, x[i])] :
        x \in UNION {[1..n -> EquityValues] : n \in 0..MaxPoints}}

MetricsInit ==
    /\ pc = "metrics"
    /\ cfg \in {[risk_free_rate |-> r] : r \in {DefaultRiskFreeRate, Zero}}
    /\ portfolio_values \in EnumResults
    /\ trade_log = <<>>
    /\ metrics = <<>>
    /\ df = NoFrame
    /\ loaded = NoFrame
    /\ capital = Zero
    /\ holdings = Zero
    /\ entry_price = Zero
    /\ attempt = 0
    /\ responses = <<>>
    /\ data = <<>>

\* metrics = calculate_metrics(results, trades): portfolio.iloc[-1] raises
\* IndexError on an empty series; nothing else in the function raises
CalculateMetrics ==
    /\ pc = "metrics"
    /\ IF portfolio_values = <<>>
       THEN pc' = "IndexError" /\ UNCHANGED metrics
       ELSE /\ pc' = "reported"
            /\ metrics' = <<Report(portfolio_values, cfg.risk_free_rate)>>
    /\ UNCHANGED <<cfg, df, loaded, simVars, fetchVars>>

MetricsNext == CalculateMetrics

MetricsSpec == MetricsInit /\ [][MetricsNext]_vars

(***************************************************************************)
(* Helpers of the properties                                               *)
(***************************************************************************)
\* the run went through compute_indicators and generate_signals
Pipeline == cfg.entry # "call"

\* the frame compute_indicators made of the loaded frame `frame`
IndicatorsOf(frame) ==
    compute_indicators(frame, cfg.short_window, cfg.long_window, cfg.momentum_period)

\* what the pipeline makes of the loaded frame `frame`
SignalsOf(frame) == generate_signals(IndicatorsOf(frame), cfg.momentum_threshold)

\* `frame` with the close of record k replaced by v
WithClose(frame, k, v) == [frame EXCEPT !.rows[k].close = v]

\* `frame` with the volume of record k replaced by v
WithVolume(frame, k, v) == [frame EXCEPT !.rows[k].volume = v]

\* `frame` without its last record
WithoutLast(frame) == [frame EXCEPT !.rows = SubSeq(frame.rows, 1, Len(frame.rows) - 1)]

\* out and alt give the same position to every record dated up to k
SamePositionsUpTo(out, alt, k) ==
    \A j \in 1..Len(out.rows) :
        out.rows[j].date <= k =>
            /\ j <= Len(alt.rows)
            /\ alt.rows[j].date = out.rows[j].date
            /\ alt.rows[j].position = out.rows[j].position

(***************************************************************************)
(* C1. No look-ahead in generate_signals.  (a) The position of every       *)
(* retained record is the raw signal of the input record just before it.   *)
(* (b) Changing one input record k (its close, its volume) or dropping the *)
(* last record leaves the position of every record dated up to k as it     *)
(* was.  Every series of the enumerated length is an input, so any two     *)
(* series that agree before index i are linked by such one-record changes  *)
(* at indices >= i: (b) gives the same positions before i for both.        *)
(***************************************************************************)
C1_NoLookAhead ==
    (pc = "signals" /\ Pipeline) =>
        /\ \A j \in 1..Len(df.rows) :
              /\ df.rows[j].date > 1
              /\ df.rows[j].position =
                    Signal(IndicatorsOf(loaded), cfg.momentum_threshold, df.rows[j].date - 1)
              /\ j > 1 => /\ df.rows[j - 1].date = df.rows[j].date - 1
                          /\ df.rows[j].position = df.rows[j - 1].signal
        /\ cfg.input = "enum" =>
              /\ \A k \in 1..Len(loaded.rows) : \A v \in Prices \ {loaded.rows[k].close} :
                    SamePositionsUpTo(df, SignalsOf(WithClose(loaded, k, v)), k)
              /\ cfg.volume =>
                    \A k \in 1..Len(loaded.rows) : \A v \in {R(1), R(9)} :
                        SamePositionsUpTo(df, SignalsOf(WithVolume(loaded, k, v)), k)
              /\ Len(loaded.rows) > cfg.long_window =>
                    SamePositionsUpTo(df, SignalsOf(WithoutLast(loaded)),
                                      Len(loaded.rows) - 1)

\* a run whose signals are out: some record is long on a day with no signal,
\* and the signal of the last record differs from the one before it
C1_Witness ==
    /\ pc = "signals" /\ cfg.input = "enum"
    /\ Len(df.rows) >= 3
    /\ \E j \in 1..Len(df.rows) : df.rows[j].position = One /\ df.rows[j].signal = Zero
    /\ \E j \in 1..Len(df.rows) : df.rows[j].position = Zero /\ df.rows[j].signal = One

(***************************************************************************)
(* C10. Every record generate_signals returns has an available short MA,   *)
(* long MA and momentum, and a trade in {+1, -1, 0} equal to               *)
(* position[i] - position[i-1]; the first record is dropped.               *)
(***************************************************************************)
C10_RetainedRecordsHaveIndicators ==
    (pc = "signals" /\ Pipeline) =>
        \A j \in 1..Len(df.rows) :
            /\ df.rows[j].date > 1
            /\ ~IsNaN(df.rows[j].sma_short)
            /\ ~IsNaN(df.rows[j].sma_long)
            /\ ~IsNaN(df.rows[j].momentum)
            /\ df.rows[j].trade \in Trades
            /\ df.rows[j].trade =
                  RSub(df.rows[j].position,
                       Signal(IndicatorsOf(loaded), cfg.momentum_threshold,
                              df.rows[j].date - 2))

(***************************************************************************)
(* Helpers of the properties of run_backtest                               *)
(***************************************************************************)
\* this step is one iteration of the loop of run_backtest
DayStep == pc = "loop" /\ Len(portfolio_values') = Len(portfolio_values) + 1

\* the row that iteration read
DayRow == df'.rows[Len(portfolio_values')]

\* the events that iteration appended to the ledger
NewEvents == SubSeq(trade_log', Len(trade_log) + 1, Len(trade_log'))

\* a position is open and today's return is at or below the stop-loss
StopLossDue(price) ==
    /\ ~IsNaN(cfg.stop_loss)
    /\ RGt(holdings, Zero)
    /\ RLe(RDiv(RSub(price, entry_price), entry_price), cfg.stop_loss)

\* proceeds, fee and realized P&L of liquidating u units bought at e, at price p
Proceeds(u, p) == RMul(u, p)
ExitFee(u, p) == RMul(RMul(u, p), cfg.transaction_cost)
ExitCash(u, p) == RSub(Proceeds(u, p), ExitFee(u, p))
ExitPnl(u, p, e) == RSub(RSub(Proceeds(u, p), ExitFee(u, p)), RMul(u, e))

IsClose(ev) == ev.action \in {"SELL", "STOP_LOSS"}

\* the run is inside or past the loop of run_backtest
Backtesting == pc \in {"loop", "done"}

(***************************************************************************)
(* C2. Stop-loss is inclusive and total: on a day where a position is open, *)
(* stop_loss is not None and (price - entry_price)/entry_price <= stop_loss,*)
(* a STOP_LOSS event is recorded at that day's price with P&L <= 0, and     *)
(* holdings and entry price are both 0 at the end of that day; when the     *)
(* return is strictly above stop_loss no STOP_LOSS event is recorded.       *)
(***************************************************************************)
C2_StopLossTotal ==
    [][DayStep =>
         IF StopLossDue(DayRow.close)
         THEN /\ \E i \in 1..Len(NewEvents) :
                    /\ NewEvents[i].action = "STOP_LOSS"
                    /\ NewEvents[i].price = DayRow.close
                    /\ RLe(NewEvents[i].pnl, Zero)
              /\ holdings' = Zero
              /\ entry_price' = Zero
         ELSE \A i \in 1..Len(NewEvents) : NewEvents[i].action # "STOP_LOSS"]_vars

\* C2 without its last clause about the end of the day: what the code does
\* on a stop-loss day is to record the exit first
C2_StopLossRecorded ==
    [][DayStep =>
         IF StopLossDue(DayRow.close)
         THEN /\ Len(NewEvents) >= 1
              /\ NewEvents[1].action = "STOP_LOSS"
              /\ NewEvents[1].price = DayRow.close
              /\ RLe(NewEvents[1].pnl, Zero)
              /\ DayRow.trade # One => holdings' = Zero /\ entry_price' = Zero
         ELSE \A i \in 1..Len(NewEvents) : NewEvents[i].action # "STOP_LOSS"]_vars

(***************************************************************************)
(* C3. Each processed day appends at most one TradeEvent to the ledger: no  *)
(* two events of the ledger carry the same date; a day with a STOP_LOSS     *)
(* exit records no BUY.                                                     *)
(***************************************************************************)
C3_OneEventPerDay ==
    Backtesting =>
        \A i, j \in 1..Len(trade_log) : i # j => trade_log[i].date # trade_log[j].date

(***************************************************************************)
(* C4. After every processed day cash >= 0 and holdings >= 0.               *)
(***************************************************************************)
C4_NonNegative ==
    Backtesting =>
        /\ RGe(capital, Zero)
        /\ RGe(holdings, Zero)
        /\ \A i \in 1..Len(portfolio_values) :
              /\ RGe(portfolio_values[i].cash, Zero)
              /\ RGe(portfolio_values[i].holdings, Zero)

\* a position was closed at a loss under a fee, and another one is open
C4_Witness ==
    /\ Backtesting
    /\ Len(trade_log) >= 3
    /\ cfg.transaction_cost = Q(1, 2)
    /\ RGt(holdings, Zero)
    /\ \E i \in 1..Len(portfolio_values) : RGt(portfolio_values[i].cash, Zero)

(***************************************************************************)
(* C5. At most one position is open at a time: the ledger alternates        *)
(* between a BUY and a close (SELL or STOP_LOSS), starting with a BUY; a    *)
(* BUY is never recorded while holdings > 0 and a close never while         *)
(* holdings = 0.                                                            *)
(***************************************************************************)
C5_Alternation ==
    Backtesting =>
        /\ \A i \in 1..Len(trade_log) :
              IF i % 2 = 1 THEN trade_log[i].action = "BUY" ELSE IsClose(trade_log[i])
        /\ RGt(holdings, Zero) => Len(trade_log) % 2 = 1
        /\ Len(trade_log) % 2 = 0 => holdings = Zero /\ entry_price = Zero

\* a ledger with two entries and two closes
C5_Witness ==
    /\ Backtesting
    /\ Len(trade_log) >= 4
    /\ \E i \in 1..Len(trade_log) : trade_log[i].action = "STOP_LOSS"
    /\ \E i \in 1..Len(trade_log) : trade_log[i].action = "SELL"

(***************************************************************************)
(* C6. Entry accounting: when an entry executes with cash C > 0 at price p  *)
(* and transaction-cost fraction t, the fee charged is C*t, the units       *)
(* acquired are (C - C*t)/p, cash becomes exactly 0, the entry price        *)
(* becomes p and the event's realized P&L is 0.  C is the cash at the       *)
(* moment of the entry: the cash the day started with or, when a STOP_LOSS  *)
(* exit came first on that day, the proceeds of that exit.  The ledger      *)
(* holds the fee rounded to 2 and the units rounded to 6 decimals.          *)
(***************************************************************************)
C6_EntryAccounting ==
    [][(DayStep /\ Len(NewEvents) >= 1 /\ NewEvents[Len(NewEvents)].action = "BUY") =>
         LET ev == NewEvents[Len(NewEvents)]
             p == DayRow.close
             t == cfg.transaction_cost
             C == IF Len(NewEvents) = 2 THEN ExitCash(holdings, p) ELSE capital
             fee == RMul(C, t)
             units == RDiv(RSub(C, fee), p)
         IN  /\ RGt(C, Zero)
             /\ holdings' = units
             /\ RSub(C, RMul(holdings', p)) = fee
             /\ capital' = Zero
             /\ entry_price' = p
             /\ ev.pnl = Zero
             /\ ev.fee = Round(fee, 2)
             /\ ev.units = Round(units, 6)
             /\ ev.price = Round(p, 2)]_vars

\* the entry of the specification's scenario D: capital 10000, cost 0.001,
\* price 100: units 99.9, fee 10.0
C6_Witness ==
    /\ Backtesting
    /\ cfg.initial_capital = R(10000) /\ cfg.transaction_cost = Q(1, 1000)
    /\ Len(trade_log) = 1
    /\ trade_log[1].action = "BUY"
    /\ trade_log[1].price = R(100)
    /\ trade_log[1].units = Q(999, 10)
    /\ trade_log[1].fee = R(10)
    /\ holdings = Q(999, 10)
    /\ capital = Zero

(***************************************************************************)
(* C7. Exit accounting: when trade == -1 arrives while long with u units,   *)
(* entry price e and today's price p, the fee is u*p*t, cash becomes        *)
(* u*p - fee, the realized P&L is u*p - fee - u*e, and holdings and entry   *)
(* price are reset to 0; a STOP_LOSS exit uses the same proceeds, fee and   *)
(* P&L formula.  The ledger holds fee and P&L rounded to 2 decimals.        *)
(***************************************************************************)
C7_ExitAccounting ==
    [][DayStep =>
         LET p == DayRow.close
             u == holdings
             e == entry_price
         IN  /\ (DayRow.trade = R(-1) /\ RGt(u, Zero)) =>
                    /\ Len(NewEvents) = 1
                    /\ NewEvents[1].action = IF StopLossDue(p) THEN "STOP_LOSS" ELSE "SELL"
                    /\ capital' = ExitCash(u, p)
                    /\ holdings' = Zero
                    /\ entry_price' = Zero
             /\ (Len(NewEvents) >= 1 /\ IsClose(NewEvents[1])) =>
                    /\ RGt(u, Zero)
                    /\ NewEvents[1].fee = Round(ExitFee(u, p), 2)
                    /\ NewEvents[1].pnl = Round(ExitPnl(u, p, e), 2)
                    /\ NewEvents[1].units = Round(u, 6)
                    /\ NewEvents[1].price = Round(p, 2)
                    /\ Len(NewEvents) = 1 => capital' = ExitCash(u, p)]_vars

\* a ledger with a SELL and a STOP_LOSS, both at a loss, under a fee
C7_Witness ==
    /\ Backtesting
    /\ RGt(cfg.transaction_cost, Zero)
    /\ \E i \in 1..Len(trade_log) :
          trade_log[i].action = "SELL" /\ RLt(trade_log[i].pnl, Zero)
    /\ \E i \in 1..Len(trade_log) :
          trade_log[i].action = "STOP_LOSS" /\ RLt(trade_log[i].pnl, Zero)

(***************************************************************************)
(* C8. A constant price series through compute_indicators,                  *)
(* generate_signals and run_backtest produces no trade event, and the       *)
(* portfolio value equals the initial capital at every equity point, for    *)
(* any windows, momentum threshold >= 0, transaction cost and stop-loss.    *)
(***************************************************************************)
\* the loaded series is constant
ConstantSeries ==
    /\ Pipeline
    /\ Len(loaded.rows) >= 1
    /\ \A i \in 1..Len(loaded.rows) : loaded.rows[i].close = loaded.rows[1].close

ConstantRun == Backtesting /\ ConstantSeries /\ RGe(cfg.momentum_threshold, Zero)

ScenarioA ==
    /\ cfg.input = "rising" /\ ~cfg.volume /\ cfg.days = 100
    /\ cfg.short_window = 5 /\ cfg.long_window = 10
    /\ cfg.momentum_threshold = Zero /\ cfg.transaction_cost = Zero

C9_RisingSeries ==
    (ScenarioA /\ Backtesting) =>
        /\ \A i \in 1..Len(trade_log) : trade_log[i].action = "BUY"
        /\ Len(trade_log) <= 1
        /\ pc = "done" =>
              /\ Len(trade_log) = 1
              /\ Len(portfolio_values) = Len(df.rows)
              /\ RGt(portfolio_values[Len(portfolio_values)].portfolio_value,
                     cfg.initial_capital)

\* scenario A run to its end
C9_Witness ==
    /\ ScenarioA /\ pc = "done"
    /\ Len(trade_log) = 1
    /\ RGt(holdings, Zero)
    /\ portfolio_values[Len(portfolio_values)].price = R(200)

(***************************************************************************)
(* C11. The indicator stage rejects short >= long: a run whose short       *)
(* window is not below its long window never gets an indicator series      *)
(* from compute_indicators, whichever entry path made the call (main.py's  *)
(* run_single or app.py's run_strategy); it ends in an error.              *)
(***************************************************************************)
C11_ShortGeLongRejected ==
    (Pipeline /\ cfg.short_window >= cfg.long_window) =>
        pc \in {"request", "start", "error"}

\* what does hold: the web handler's own test keeps such a request from
\* reaching compute_indicators
C11_WebHandlerRejects ==
    (cfg.entry = "web" /\ cfg.short_window >= cfg.long_window) =>
        pc \in {"request", "error"}

(***************************************************************************)
(* C13. run_backtest refuses an invalid call before the loop: when the     *)
(* initial capital is <= 0 or one of close, position, trade is missing     *)
(* from the frame, the call goes from its entry straight to the error; it  *)
(* never enters the loop, never finishes, and no equity point and no       *)
(* trade event exists at any time.                                         *)
(***************************************************************************)
InvalidCall ==
    /\ cfg.entry = "call"
    /\ \/ RLe(cfg.initial_capital, Zero)
       \/ \E c \in {"close", "position", "trade"} : c \notin df.columns

C13_InvalidInputRejected ==
    /\ [](InvalidCall =>
            /\ pc \in {"signals", "error"}
            /\ portfolio_values = <<>>
            /\ trade_log = <<>>)
    /\ [][(InvalidCall /\ pc = "signals") => pc' = "error"]_vars

\* reached: a call with every column present and a capital of exactly 0 has
\* failed with nothing recorded
C13_Witness ==
    /\ pc = "error"
    /\ cfg.entry = "call"
    /\ cfg.initial_capital = Zero
    /\ {"close", "position", "trade"} \subseteq df.columns
    /\ portfolio_values = <<>> /\ trade_log = <<>>

(***************************************************************************)
(* C17. Accounting conservation in run_backtest, on unrounded values.      *)
(* Write Book for cash + holdings * entry_price.  Book is the initial      *)
(* capital when the loop starts, and every processed day changes it by     *)
(* exactly: minus the fee of the day's entry, plus the realized P&L of     *)
(* the day's SELL or STOP_LOSS.  Hence after every day Book = initial      *)
(* capital - (sum of entry fees) + (sum of realized P&L), and for a flat   *)
(* portfolio cash - initial capital = summed P&L - summed entry fees.      *)
(* The ledger holds each of these fees and P&Ls rounded to 2 decimals.     *)
(***************************************************************************)
BookOf(cash, units, entry) == RAdd(cash, RMul(units, entry))
Book == BookOf(capital, holdings, entry_price)

\* the unrounded realized P&L of the close recorded in this step, 0 if none
DayPnl ==
    IF Len(NewEvents) >= 1 /\ IsClose(NewEvents[1])
    THEN ExitPnl(holdings, DayRow.close, entry_price)
    ELSE Zero

\* the unrounded fee of the entry recorded in this step, 0 if none
DayEntryFee ==
    IF Len(NewEvents) >= 1 /\ NewEvents[Len(NewEvents)].action = "BUY"
    THEN RMul(IF Len(NewEvents) = 2 THEN ExitCash(holdings, DayRow.close) ELSE capital,
              cfg.transaction_cost)
    ELSE Zero

C17_Conservation ==
    /\ []((pc = "loop" /\ portfolio_values = <<>>) => Book = cfg.initial_capital)
    /\ [][DayStep =>
            /\ BookOf(capital', holdings', entry_price') =
                  RAdd(RSub(Book, DayEntryFee), DayPnl)
            /\ \A i \in 1..Len(NewEvents) :
                  /\ IsClose(NewEvents[i]) => NewEvents[i].pnl = Round(DayPnl, 2)
                  /\ NewEvents[i].action = "BUY" =>
                        /\ NewEvents[i].fee = Round(DayEntryFee, 2)
                        /\ NewEvents[i].pnl = Zero]_vars

\* flat again after an entry and a close that both paid a fee: the cash
\* differs from the initial capital, and by more than the ledger's P&L
C17_Witness ==
    /\ Backtesting
    /\ cfg.transaction_cost = Q(1, 2)
    /\ Len(trade_log) = 2
    /\ holdings = Zero
    /\ trade_log[1].fee = R(50)
    /\ RLt(RSub(capital, cfg.initial_capital), trade_log[2].pnl)

(***************************************************************************)
(* C18. After a STOP_LOSS exit the simulator stays flat: on every later    *)
(* day, as long as no day after the exit had trade = +1, the equity point  *)
(* shows no position, whatever the position column says.  And a day with   *)
(* trade = -1 that starts flat records no event and leaves cash, holdings  *)
(* and entry price unchanged.                                              *)
(***************************************************************************)
\* no processed row dated after d and up to row k has trade = +1
NoEntrySignalSince(d, k) ==
    \A j \in 1..k : df.rows[j].date > d => df.rows[j].trade # One

\* the equity points of the days after a STOP_LOSS dated d show no position
\* until a day with trade = +1
FlatAfter(d) ==
    \A k \in 1..Len(portfolio_values) :
        (df.rows[k].date > d /\ NoEntrySignalSince(d, k)) =>
            /\ portfolio_values[k].in_position = 0
            /\ portfolio_values[k].holdings = Zero

StaysFlatAfterStopLoss ==
    Backtesting =>
        \A i \in 1..Len(trade_log) :
            trade_log[i].action = "STOP_LOSS" => FlatAfter(trade_log[i].date)

ExitWhileFlatIgnored ==
    (DayStep /\ holdings = Zero /\ DayRow.trade = R(-1)) =>
        /\ NewEvents = <<>>
        /\ UNCHANGED <<capital, holdings, entry_price>>

C18_FlatAfterStopLoss ==
    /\ []StaysFlatAfterStopLoss
    /\ [][ExitWhileFlatIgnored]_vars

\* what does hold: the exit signal that arrives while flat is ignored, and
\* on the frames generate_signals makes (where trade = +1 never arrives
\* while a position is open) the simulator stays flat after a STOP_LOSS
C18_FlatAfterStopLossInPipeline ==
    /\ [](Pipeline => StaysFlatAfterStopLoss)
    /\ [][ExitWhileFlatIgnored]_vars

\* a pipeline run with a STOP_LOSS, then a day whose position is 1 and
\* whose equity point shows no position, then a day with trade = -1
C18_PipelineWitness ==
    /\ Pipeline /\ Backtesting
    /\ \E i \in 1..Len(trade_log), k \in 1..Len(portfolio_values) :
          /\ trade_log[i].action = "STOP_LOSS"
          /\ i = Len(trade_log)
          /\ df.rows[k].date > trade_log[i].date
          /\ df.rows[k].position = One
          /\ portfolio_values[k].in_position = 0
          /\ k < Len(portfolio_values)
          /\ df.rows[k + 1].trade = R(-1)

(***************************************************************************)
(* C15. fetch_crypto_data raises DataLoadError if the API fails after all  *)
(* retries: a call that has ended without any attempt returning HTTP 200,  *)
(* whatever mix of timeouts, connection errors and 429 responses it met,   *)
(* has ended with DataLoadError and with no other error.                   *)
(***************************************************************************)
FetchEnded == pc \in {"DataLoadError", "UnboundLocalError", "returned"}

NoSuccess == \A i \in 1..Len(responses) : responses[i] # "200"

C15_FailsWithDataLoadError ==
    (FetchEnded /\ NoSuccess) => pc = "DataLoadError"

\* what does hold: a call whose last attempt met a timeout, a connection
\* error or a status other than 200 and 429 ends with DataLoadError
C15_LastAttemptNot429 ==
    (FetchEnded /\ NoSuccess /\ responses # <<>>
        /\ responses[Len(responses)] # "429") => pc = "DataLoadError"

(***************************************************************************)
(* Helpers of the properties of calculate_metrics                          *)
(***************************************************************************)
\* the equity series calculate_metrics was called on
Equity == PortfolioColumn(portfolio_values)

\* the daily excess returns of that series
ExcessReturns == Excess(DailyReturns(Equity), cfg.risk_free_rate)

\* the downside observations: the daily excess returns below 0
NegativeExcess == SelectSeq(ExcessReturns, LAMBDA x : RLt(x, Zero))

\* the float q is 0
IsZeroValue(q) ==
    /\ q.num.coef = Zero \/ q.num.radicand = Zero
    /\ ~IsNaN(q.den.coef) /\ ~IsNaN(q.den.radicand)

\* sqrt(365) * mean(excess) / dev
SortinoOver(dev) == Quotient(Surd(Mean(ExcessReturns), R(DaysPerYear)), dev)

(***************************************************************************)
(* C12. calculate_metrics fails with an insufficient-data error whenever   *)
(* the equity series has fewer than 2 points (0 or 1): such a call never   *)
(* returns a metrics report and ends in no other way.                      *)
(***************************************************************************)
C12_InsufficientData ==
    Len(portfolio_values) < 2 =>
        /\ pc \in {"metrics", "InsufficientData"}
        /\ metrics = <<>>

(***************************************************************************)
(* C14. The Sortino ratio calculate_metrics reports for a series of two    *)
(* or more points is 0 when no daily excess return is below 0, and         *)
(* otherwise sqrt(365) * mean(excess) / stdev(negative excess returns).    *)
(***************************************************************************)
C14_SortinoZeroWithoutDownside ==
    (pc = "reported" /\ Len(portfolio_values) >= 2) =>
        IF NegativeExcess = <<>>
        THEN IsZeroValue(metrics[1].sortino)
        ELSE metrics[1].sortino = SortinoOver(Sqrt(Variance(NegativeExcess)))

\* what does hold: without downside observations the ratio is taken over
\* the constant 1e-9; with downside observations whose deviation is
\* positive it is taken over that deviation; it is 0.0 when the deviation
\* is 0 or not defined (a single downside observation)
C14_SortinoAsComputed ==
    (pc = "reported" /\ Len(portfolio_values) >= 2) =>
        metrics[1].sortino =
            IF NegativeExcess = <<>> THEN SortinoOver(Exact(DownsideEpsilon))
            ELSE IF RGt(Variance(NegativeExcess), Zero)
                 THEN SortinoOver(Sqrt(Variance(NegativeExcess)))
                 ELSE ZeroValue

(***************************************************************************)
(* C16. The max drawdown duration calculate_metrics reports is the length  *)
(* of the longest run of consecutive equity points whose portfolio value   *)
(* is strictly below the running maximum of the series up to that point;   *)
(* it is 0 when the series never falls below its running peak.             *)
(***************************************************************************)
\* point k is strictly below the highest value among points 1..k
BelowPeak(k) == \E j \in 1..k : RLt(Equity[k], Equity[j])

\* points i..i+n-1 exist and are all below the peak
RunBelowPeak(i, n) ==
    /\ i + n - 1 <= Len(Equity)
    /\ \A k \in i..(i + n - 1) : BelowPeak(k)

LongestRunBelowPeak ==
    CHOOSE n \in 0..Len(Equity) :
        /\ n = 0 \/ \E i \in 1..Len(Equity) : RunBelowPeak(i, n)
        /\ \A m \in (n + 1)..Len(Equity) :
              ~\E i \in 1..Len(Equity) : RunBelowPeak(i, m)

C16_MaxDrawdownDuration ==
    pc = "reported" =>
        /\ metrics[1].max_dd_duration = LongestRunBelowPeak
        /\ (\A k \in 1..Len(Equity) : ~BelowPeak(k)) => metrics[1].max_dd_duration = 0

\* a report on five points: a drawdown of two days, a return to the peak,
\* then a drawdown of one day; the longer one is reported
C16_Witness ==
    /\ pc = "reported"
    /\ Len(Equity) = 5
    /\ BelowPeak(2) /\ BelowPeak(3) /\ ~BelowPeak(4) /\ BelowPeak(5)
    /\ metrics[1].max_dd_duration = 2

====
